---------------------------- MODULE Spec2Model ----------------------------
(***************************************************************************)
(* Entitlement and account-lifecycle engine of the membership backend:     *)
(* registration/payment approval, subscription records and the projection  *)
(* of their state onto the account, the content-access resolver, login     *)
(* with lock-out, and the admin routes that write account fields.          *)
(*                                                                         *)
(* Every HTTP handler and script is one action.  The handlers that save a  *)
(* Subscription also exist split at their awaits (SpecConc), and with      *)
(* failing store writes (SpecFail).                                        *)
(***************************************************************************)
EXTENDS Integers, FiniteSets, Sequences, TLC

(***************************************************************************)
(* Bounds of the model.                                                    *)
(***************************************************************************)
MaxUsers == 2

MaxSubs == 2

MaxGrants == 2

MaxTime == 3

MaxReqs == 2

MaxAttempts == 6

\* the number of entries the audit store takes before it refuses writes
MaxAudit == 1

UserIds == 1..MaxUsers

SubIds == 1..MaxSubs

GrantIds == 1..MaxGrants

ReqIds == 1..MaxReqs

(***************************************************************************)
(* Program constants.                                                      *)
(***************************************************************************)
\* process.env.ADMIN_EMAIL: the address the hardcoded admin login compares with
ADMIN_EMAIL == 1

\* comparePassword locks the account once loginAttempts >= 5
LockThreshold == 5

\* the lock window, 2 hours, in ticks of one hour
LockWindow == 2

NoDate == -1

NoUser == [absent |-> TRUE]

NoSub == [absent |-> TRUE]

NoGrant == [absent |-> TRUE]

NoAdmin == [absent |-> TRUE]

RegistrationStatuses == {"pending_payment", "payment_submitted", "approved", "rejected"}

PaymentStatuses == {"pending", "verified", "rejected"}

SubscriptionTiers == {"free", "premium", "enterprise"}

SubscriptionStatuses == {"inactive", "active", "cancelled", "expired"}

SubStatuses == {"active", "cancelled", "expired", "past_due"}

\* one plan of each tier; the yearly plans differ from these in amount and interval only
PlanIds == {"premium_monthly", "enterprise_yearly"}

ContentTypes == {"magazine", "article"}

ContentIds == {"42"}

AllPermissions == {"user_management", "content_management", "subscription_management",
                   "admin_management", "system_settings", "analytics_view", "audit_logs"}

\* an absent request field (undefined in the request body)
Absent == "undefined"

VARIABLES users, subs, grants, admins, tokens, now, reqs, last, auditUp, auditLog

vars == <<users, subs, grants, admins, tokens, now, reqs, last, auditUp, auditLog>>

(***************************************************************************)
(* Records.                                                                *)
(***************************************************************************)
\* new User({...}): the schema defaults
NewUser == [registrationStatus |-> "pending_payment",
            paymentStatus |-> "pending",
            subscriptionTier |-> "free",
            subscriptionStatus |-> "inactive",
            isEmailVerified |-> FALSE,
            paymentVerificationDate |-> NoDate,
            loginAttempts |-> 0,
            lockUntil |-> NoDate]

Exists(u) == users[u] # NoUser

\* an audit entry as the handlers build it
Event(action, severity) ==
    [action |-> action, severity |-> severity, resourceId |-> 0, details |-> <<>>]

\* resourceId: the subscription's id in the subscription routes, the account's elsewhere
About(eventData, u, s) == [eventData EXCEPT !.resourceId = IF s # 0 THEN s ELSE u]

NoEvent == [absent |-> TRUE]

\* the entry a handler logs after it succeeded
EventOf(op) ==
    CASE op = "register" -> Event("user_registered", "low")
      [] op = "registerWithPayment" -> Event("user_registered_with_payment", "low")
      [] op = "login" -> Event("user_login", "low")
      [] op = "adminLogin" -> Event("admin_login", "medium")
      [] op = "approve" -> Event("registration_approved", "high")
      [] op = "reject" -> Event("registration_rejectd", "high")
      [] op = "createSubscription" -> Event("subscription_created", "medium")
      [] op = "cancelSubscription" -> Event("subscription_cancelled", "medium")
      [] op = "adminUpdateSubscription" -> Event("subscription_updated_by_admin", "medium")
      [] op = "adminUpdateUser" -> Event("user_updated", "medium")
      [] op = "adminUpdateUserSubscription" -> Event("admin_subscription_updated", "medium")
      [] op = "adminCreateUser" -> Event("admin_user_created", "medium")
      [] op = "grantAccess" -> Event("content_access_granted", "medium")
      [] op = "revokeAccess" -> Event("content_access_revoked", "medium")
      [] op = "checkAccess" -> Event("content_access_checked", "low")
      [] op = "createAdmin" -> Event("admin_user_created", "high")
      [] op = "updateAdmin" -> Event("admin_user_updated", "high")
      [] op = "deactivateAdmin" -> Event("admin_user_deactivated", "high")
      [] op = "deleteUser" -> Event("user_deleted", "high")
      [] op = "unauthorized" -> Event("unauthorized_admin_access_attempt", "high")
      [] OTHER -> NoEvent

\* AuditLog.logEvent: the entries it appends; a failing save is caught and logged
\* log.save() succeeds while the store is up and has room
AuditAccepts == auditUp /\ Len(auditLog) < MaxAudit

logEvent(eventData) == IF AuditAccepts THEN <<eventData>> ELSE <<>>

\* the record a handler leaves about itself: the operation, whether it answered
\* success, the account and subscription it was about, the status it was asked
\* to set, its boolean answer, the content item asked about, the store writes
\* that failed in it, and the audit entries it appended
\* the audit collection after log.save() of each of the entries: an insert,
\* nothing that is stored is touched
appendLog(stored, entries) == stored \o entries

\* a variant of logEvent without the catch block: the rejection of
\* AuditLog.create reaches the handler
logEventRethrows(eventData) == ~AuditAccepts

\* whether logEvent rejects: its catch block returns null for every error
logEventThrows(eventData) == FALSE

Done(op, ok, u, s, st, res) ==
    LET logs == ok /\ EventOf(op) # NoEvent IN
    [op |-> op, ok |-> ok /\ ~(logs /\ logEventThrows(EventOf(op))),
     u |-> u, s |-> s, st |-> st, res |-> res,
     content |-> <<>>, userFail |-> FALSE, subFail |-> FALSE,
     audit |-> IF logs THEN logEvent(About(EventOf(op), u, s)) ELSE <<>>]

\* the record of a handler that logs eventData on this path
Logged(rec, eventData) == [rec EXCEPT !.audit = logEvent(About(eventData, rec.u, rec.s))]

NoOp == Done("none", FALSE, 0, 0, Absent, FALSE)

NoReq == [pc |-> "idle"]

(***************************************************************************)
(* Authentication and the admin guard.                                     *)
(***************************************************************************)
\* authenticate: a verifiable token whose user still exists
authenticate(u) == u \in tokens /\ Exists(u)

\* AdminUser.isAdmin: findOne({userId, isActive: true})
isAdmin(u) == admins[u] # NoAdmin /\ admins[u].isActive

\* adminUser.hasPermission
hasPermission(a, permission) == a.isActive /\ permission \in a.permissions

authenticateAdmin(u) == authenticate(u) /\ isAdmin(u)

\* a variant of the guard that asks for an admin grant and not for the token
requirePermissionOfAny(u, permission) == admins[u] # NoAdmin

\* requirePermission(permission): req.admin is set and has the permission
requirePermission(u, permission) == admins[u] # NoAdmin /\ hasPermission(admins[u], permission)

\* userSchema.virtual('isLocked')
isLocked(user) == user.lockUntil # NoDate /\ user.lockUntil > now

\* userSchema.methods.hasActiveSubscription
hasActiveSubscription(user) ==
    user.subscriptionStatus = "active" /\ user.subscriptionTier \in {"premium", "enterprise"}

\* userSchema.methods.comparePassword: the user document after the check.  A
\* locked account throws before the password is looked at.
comparePasswordUser(user, isMatch) ==
    IF ~isMatch
    THEN LET n == user.loginAttempts + 1 IN
         [user EXCEPT !.loginAttempts = n,
                      !.lockUntil = IF n >= LockThreshold THEN now + LockWindow ELSE @]
    ELSE IF user.loginAttempts > 0
         THEN [user EXCEPT !.loginAttempts = 0, !.lockUntil = NoDate]
         ELSE user

(***************************************************************************)
(* Registration and login (routes/auth.js).                                *)
(***************************************************************************)
\* POST /register
Register(e) ==
    /\ IF Exists(e)
       THEN /\ last' = Done("register", FALSE, e, 0, Absent, FALSE)
            /\ UNCHANGED <<users, tokens>>
       ELSE /\ users' = [users EXCEPT ![e] = NewUser]
            /\ tokens' = tokens \cup {e}
            /\ last' = Done("register", TRUE, e, 0, Absent, TRUE)
    /\ UNCHANGED <<subs, grants, admins, now, reqs, auditUp>>
    /\ auditLog' = appendLog(auditLog, last'.audit)

\* POST /register-with-payment
RegisterWithPayment(e) ==
    /\ IF Exists(e)
       THEN /\ last' = Done("registerWithPayment", FALSE, e, 0, Absent, FALSE)
            /\ UNCHANGED users
       ELSE /\ users' = [users EXCEPT ![e] =
                           [NewUser EXCEPT !.registrationStatus = "payment_submitted",
                                           !.paymentStatus = "pending"]]
            /\ last' = Done("registerWithPayment", TRUE, e, 0, Absent, FALSE)
    /\ UNCHANGED <<subs, grants, admins, tokens, now, reqs, auditUp>>
    /\ auditLog' = appendLog(auditLog, last'.audit)

\* POST /login; res tells whether a token was returned
Login(e, isMatch) ==
    /\ Exists(e)
    /\ users[e].loginAttempts < MaxAttempts
    /\ IF users[e].registrationStatus # "approved" \/ isLocked(users[e])
       THEN /\ last' = Done("login", FALSE, e, 0, Absent, FALSE)
            /\ UNCHANGED <<users, tokens>>
       ELSE /\ users' = [users EXCEPT ![e] = comparePasswordUser(@, isMatch)]
            /\ tokens' = IF isMatch THEN tokens \cup {e} ELSE tokens
            /\ last' = IF isMatch
                       THEN Done("login", TRUE, e, 0, Absent, TRUE)
                       ELSE Logged(Done("login", FALSE, e, 0, Absent, FALSE),
                                   Event("login_failed", "medium"))
    /\ UNCHANGED <<subs, grants, admins, now, reqs, auditUp>>
    /\ auditLog' = appendLog(auditLog, last'.audit)

\* new AdminUser({userId, role}) saved: the pre('save') hook sets the default
\* permissions of the role
DefaultPermissions(role) ==
    IF role = "super_admin"
    THEN AllPermissions
    ELSE {"user_management", "content_management", "subscription_management", "analytics_view"}

\* POST /admin/login with the hardcoded credentials
AdminLoginHardcoded ==
    /\ IF Exists(ADMIN_EMAIL)
       THEN UNCHANGED <<users, admins>>
       ELSE /\ users' = [users EXCEPT ![ADMIN_EMAIL] =
                           [NewUser EXCEPT !.subscriptionTier = "enterprise",
                                           !.subscriptionStatus = "active"]]
            /\ admins' = [admins EXCEPT ![ADMIN_EMAIL] =
                           [role |-> "super_admin",
                            permissions |-> DefaultPermissions("super_admin"),
                            isActive |-> TRUE]]
    /\ tokens' = tokens \cup {ADMIN_EMAIL}
    /\ last' = Done("adminLogin", TRUE, ADMIN_EMAIL, 0, Absent, TRUE)
    /\ UNCHANGED <<subs, grants, now, reqs, auditUp>>
    /\ auditLog' = appendLog(auditLog, last'.audit)

\* POST /admin/login, the regular flow
AdminLogin(e, isMatch) ==
    /\ Exists(e)
    /\ users[e].loginAttempts < MaxAttempts
    /\ IF ~isAdmin(e) \/ isLocked(users[e])
       THEN /\ last' = IF ~isAdmin(e)
                       THEN Logged(Done("adminLogin", FALSE, e, 0, Absent, FALSE),
                                   Event("unauthorized_admin_login_attempt", "high"))
                       ELSE Done("adminLogin", FALSE, e, 0, Absent, FALSE)
            /\ UNCHANGED <<users, tokens>>
       ELSE /\ users' = [users EXCEPT ![e] = comparePasswordUser(@, isMatch)]
            /\ tokens' = IF isMatch THEN tokens \cup {e} ELSE tokens
            /\ last' = Done("adminLogin", isMatch, e, 0, Absent, isMatch)
    /\ UNCHANGED <<subs, grants, admins, now, reqs, auditUp>>
    /\ auditLog' = appendLog(auditLog, last'.audit)

\* the clock; an answer given before the instant passed is no longer the last event
Tick ==
    /\ now < MaxTime
    /\ now' = now + 1
    /\ last' = Done("tick", TRUE, 0, 0, Absent, FALSE)
    /\ UNCHANGED <<users, subs, grants, admins, tokens, reqs, auditUp>>
    /\ auditLog' = appendLog(auditLog, last'.audit)

(***************************************************************************)
(* The registration state machine (routes/admin.js, scripts).              *)
(***************************************************************************)
\* a variant of 'approve' that raises the tier only of a free account
ApproveUserKeepsTier(user) ==
    [user EXCEPT !.registrationStatus = "approved",
                 !.paymentStatus = "verified",
                 !.paymentVerificationDate = now,
                 !.subscriptionStatus = "active",
                 !.subscriptionTier = IF @ = "free" THEN "premium" ELSE @,
                 !.isEmailVerified = TRUE]

\* the fields 'approve' sets on the loaded user
ApproveUser(user) ==
    [user EXCEPT !.registrationStatus = "approved",
                 !.paymentStatus = "verified",
                 !.paymentVerificationDate = now,
                 !.subscriptionStatus = "active",
                 !.subscriptionTier = "premium",
                 !.isEmailVerified = TRUE]

\* the fields 'reject' sets on the loaded user
RejectUser(user) ==
    [user EXCEPT !.registrationStatus = "rejected", !.paymentStatus = "rejected"]

\* the four fields the registration entry records of a user
StatusFields(user) ==
    [registrationStatus |-> user.registrationStatus,
     paymentStatus |-> user.paymentStatus,
     subscriptionStatus |-> user.subscriptionStatus,
     subscriptionTier |-> user.subscriptionTier]

\* the entry of a registration decision: oldStatus is taken before the
\* assignments, newStatus after them
RegistrationEvent(action, old, new) ==
    [EventOf(action) EXCEPT !.details = <<StatusFields(old), StatusFields(new)>>]

\* PUT /admin/users/:id/registration-status
RegistrationStatus(a, u, action) ==
    /\ authenticateAdmin(a)
    /\ IF ~Exists(u)
       THEN /\ last' = Done(action, FALSE, u, 0, Absent, FALSE)
            /\ UNCHANGED users
       ELSE /\ users' = [users EXCEPT ![u] =
                           IF action = "approve" THEN ApproveUser(@) ELSE RejectUser(@)]
            /\ last' = Logged(Done(action, TRUE, u, 0, users[u].registrationStatus, FALSE),
                               RegistrationEvent(action, users[u], users'[u]))
    /\ UNCHANGED <<subs, grants, admins, tokens, now, reqs, auditUp>>
    /\ auditLog' = appendLog(auditLog, last'.audit)

\* the $set of the three bulk scripts
BulkSet(user) ==
    [user EXCEPT !.registrationStatus = "approved",
                 !.paymentStatus = "verified",
                 !.paymentVerificationDate = now]

\* the filter of fixExistingUsers
NeedsFix(user) ==
    /\ user.registrationStatus = "pending_payment"
    /\ \/ user.subscriptionStatus = "active"
       \/ user.subscriptionTier \in {"premium", "enterprise"}

\* the accounts fixExistingUsers finds
usersToFix == {u \in UserIds : Exists(u) /\ NeedsFix(users[u])}

\* fixExistingUsers: find, early return on no match, updateMany
fixExistingUsers ==
    /\ users' = [u \in UserIds |->
                   IF u \in usersToFix THEN BulkSet(users[u]) ELSE users[u]]
    /\ last' = Done("fixExistingUsers", TRUE, 0, Cardinality(usersToFix), Absent, FALSE)
    /\ UNCHANGED <<subs, grants, admins, tokens, now, reqs, auditUp>>
    /\ auditLog' = appendLog(auditLog, last'.audit)

\* the filter of fixAllUsers and quickFixAllUsers
NotApproved(user) == user.registrationStatus # "approved"

\* the accounts fixAllUsers counts and updates
usersNotApproved == {u \in UserIds : Exists(u) /\ NotApproved(users[u])}

\* a variant of the script that ends with an error when no account matches
fixAllUsersStrict ==
    /\ users' = [u \in UserIds |->
                   IF u \in usersNotApproved THEN BulkSet(users[u]) ELSE users[u]]
    /\ last' = Done("fixAllUsers", usersNotApproved # {}, 0,
                    Cardinality(usersNotApproved), Absent, FALSE)
    /\ UNCHANGED <<subs, grants, admins, tokens, now, reqs, auditUp>>
    /\ auditLog' = appendLog(auditLog, last'.audit)

\* fixAllUsers (--all) and quickFixAllUsers: the same count, early return and
\* updateMany
fixAllUsers ==
    /\ users' = [u \in UserIds |->
                   IF u \in usersNotApproved THEN BulkSet(users[u]) ELSE users[u]]
    /\ last' = Done("fixAllUsers", TRUE, 0, Cardinality(usersNotApproved), Absent, FALSE)
    /\ UNCHANGED <<subs, grants, admins, tokens, now, reqs, auditUp>>
    /\ auditLog' = appendLog(auditLog, last'.audit)

(***************************************************************************)
(* Subscriptions (models/Subscription.js, routes/subscriptions.js).        *)
(***************************************************************************)
\* the words a plan identifier contains (String.prototype.includes)
PlanWords(planId) ==
    CASE planId = "premium_monthly" -> {"premium", "monthly"}
      [] planId = "premium_yearly" -> {"premium", "yearly"}
      [] planId = "enterprise_monthly" -> {"enterprise", "monthly"}
      [] planId = "enterprise_yearly" -> {"enterprise", "yearly"}
      [] OTHER -> {}

\* subscriptionSchema.virtual('tier')
SubTier(planId) ==
    IF "premium" \in PlanWords(planId) THEN "premium"
    ELSE IF "enterprise" \in PlanWords(planId) THEN "enterprise"
    ELSE "free"

\* the hook's query for the other active subscriptions of the owner
OtherActive(sb, uid, sid) ==
    {i \in SubIds : sb[i] # NoSub /\ sb[i].userId = uid /\ sb[i].status = "active" /\ i # sid}

\* a variant of the hook that looks for other subscriptions only on expiry
HookScansOnExpiry(doc) == doc.status \in {"expired"}

\* whether the hook runs the query at all
HookScans(doc) == doc.status \in {"cancelled", "expired"}

\* pre('save'): what the hook assigns to the loaded user, given the result of its query
HookUser(user, doc, others) ==
    IF doc.status = "active"
    THEN [user EXCEPT !.subscriptionTier = SubTier(doc.planId),
                      !.subscriptionStatus = "active"]
    ELSE IF HookScans(doc) /\ others = {}
         THEN [user EXCEPT !.subscriptionTier = "free", !.subscriptionStatus = "inactive"]
         ELSE user

\* user.save() of a document loaded as snap and changed to changed: only the
\* modified paths are written to the stored document
SaveUser(stored, snap, changed) ==
    IF stored = NoUser
    THEN stored
    ELSE [f \in DOMAIN stored |-> IF changed[f] # snap[f] THEN changed[f] ELSE stored[f]]

\* this.isModified('status') || this.isNew
HookFires(sid, doc) == IF subs[sid] = NoSub THEN TRUE ELSE subs[sid].status # doc.status

\* whether the hook's user.save() has a modified path to write
WritesUser(sid, doc) ==
    /\ HookFires(sid, doc)
    /\ Exists(doc.userId)
    /\ HookUser(users[doc.userId], doc, OtherActive(subs, doc.userId, sid)) # users[doc.userId]

\* subscription.save() run without interruption: the accounts after the hook.
\* A failing user.save() is caught and logged by the hook, which goes on.
UsersAfterSave(sid, doc, userFail) ==
    IF HookFires(sid, doc) /\ Exists(doc.userId) /\ ~userFail
    THEN [users EXCEPT ![doc.userId] =
            SaveUser(@, @, HookUser(@, doc, OtherActive(subs, doc.userId, sid)))]
    ELSE users

\* the document write of subscription.save(): an insert of a new document, else
\* the modified paths of the document loaded as loaded
SaveSub(stored, loaded, doc) ==
    IF loaded = NoSub
    THEN doc
    ELSE IF stored = NoSub
         THEN stored
         ELSE [f \in DOMAIN stored |-> IF doc[f] # loaded[f] THEN doc[f] ELSE stored[f]]

\* ... and the subscriptions after the document itself is written
SubsAfterSave(sid, doc, subFail) ==
    IF subFail THEN subs ELSE [subs EXCEPT ![sid] = SaveSub(@, @, doc)]

\* the store writes that can fail in this save
MayFail(sid, doc, userFail, subFail) ==
    /\ userFail => WritesUser(sid, doc)
    /\ subFail => subs[sid] # doc

FreeSubIds == {s \in SubIds : subs[s] = NoSub}

\* the _id of the next document
NewSubId == CHOOSE s \in FreeSubIds : \A t \in FreeSubIds : s <= t

\* a variant of the precondition query that never finds a subscription
NoExistingSubscription(u) == FALSE

\* Subscription.findOne({userId, status: 'active'})
ExistingSubscription(u) == \E s \in SubIds : subs[s] # NoSub /\ subs[s].userId = u /\ subs[s].status = "active"

\* new Subscription({userId, planId, status: 'active', ...})
NewSubscription(u, planId) ==
    [userId |-> u, planId |-> planId, status |-> "active",
     cancelledAt |-> NoDate, cancelAtPeriodEnd |-> FALSE]

\* the handler's record when store writes may fail
DoneSave(op, u, s, st, userFail, subFail) ==
    [Done(op, ~subFail, u, s, st, FALSE) EXCEPT !.userFail = userFail, !.subFail = subFail]

\* POST /subscriptions
CreateSubscriptionF(u, planId, userFail, subFail) ==
    /\ authenticate(u)
    /\ IF ExistingSubscription(u)
       THEN /\ last' = Done("createSubscription", FALSE, u, 0, Absent, FALSE)
            /\ UNCHANGED <<users, subs>>
       ELSE /\ FreeSubIds # {}
            /\ LET sid == NewSubId
                   doc == NewSubscription(u, planId) IN
               /\ MayFail(sid, doc, userFail, subFail)
               /\ users' = UsersAfterSave(sid, doc, userFail)
               /\ subs' = SubsAfterSave(sid, doc, subFail)
               /\ last' = DoneSave("createSubscription", u, sid, "active", userFail, subFail)
    /\ UNCHANGED <<grants, admins, tokens, now, reqs, auditUp>>
    /\ auditLog' = appendLog(auditLog, last'.audit)

CreateSubscription(u, planId) == CreateSubscriptionF(u, planId, FALSE, FALSE)

\* a variant of the cancel handler that does not set cancelAtPeriodEnd
CancelledSubscriptionAtOnce(sub) ==
    [sub EXCEPT !.status = "cancelled", !.cancelledAt = now]

\* the fields the cancel handler sets on the loaded subscription
CancelledSubscription(sub) ==
    [sub EXCEPT !.status = "cancelled", !.cancelledAt = now, !.cancelAtPeriodEnd = TRUE]

\* PUT /subscriptions/:id/cancel
CancelSubscriptionF(u, sid, userFail, subFail) ==
    /\ authenticate(u)
    /\ IF subs[sid] = NoSub \/ subs[sid].userId # u \/ subs[sid].status # "active"
       THEN /\ last' = Done("cancelSubscription", FALSE, u, sid, Absent, FALSE)
            /\ UNCHANGED <<users, subs>>
       ELSE LET doc == CancelledSubscription(subs[sid]) IN
            /\ MayFail(sid, doc, userFail, subFail)
            /\ users' = UsersAfterSave(sid, doc, userFail)
            /\ subs' = SubsAfterSave(sid, doc, subFail)
            /\ last' = DoneSave("cancelSubscription", u, sid, "cancelled", userFail, subFail)
    /\ UNCHANGED <<grants, admins, tokens, now, reqs, auditUp>>
    /\ auditLog' = appendLog(auditLog, last'.audit)

CancelSubscription(u, sid) == CancelSubscriptionF(u, sid, FALSE, FALSE)

\* if (status) subscription.status = status
AdminUpdatedSubscription(sub, status) ==
    IF status # Absent THEN [sub EXCEPT !.status = status] ELSE sub

\* PUT /subscriptions/admin/:id
AdminUpdateSubscriptionF(a, sid, status, userFail, subFail) ==
    /\ authenticateAdmin(a)
    /\ requirePermission(a, "subscription_management")
    /\ IF subs[sid] = NoSub
       THEN /\ last' = Done("adminUpdateSubscription", FALSE, 0, sid, Absent, FALSE)
            /\ UNCHANGED <<users, subs>>
       ELSE LET doc == AdminUpdatedSubscription(subs[sid], status) IN
            /\ MayFail(sid, doc, userFail, subFail)
            /\ users' = UsersAfterSave(sid, doc, userFail)
            /\ subs' = SubsAfterSave(sid, doc, subFail)
            /\ last' = DoneSave("adminUpdateSubscription", doc.userId, sid, status,
                                userFail, subFail)
    /\ UNCHANGED <<grants, admins, tokens, now, reqs, auditUp>>
    /\ auditLog' = appendLog(auditLog, last'.audit)

AdminUpdateSubscription(a, sid, status) == AdminUpdateSubscriptionF(a, sid, status, FALSE, FALSE)

(***************************************************************************)
(* The admin routes that write the account's projection directly.          *)
(***************************************************************************)
\* PUT /users/:id: the fields assigned to the loaded user
UpdatedUser(user, tier, status) ==
    [user EXCEPT !.subscriptionTier = IF tier # Absent THEN tier ELSE @,
                 !.subscriptionStatus = IF status # Absent THEN status ELSE @]

\* PUT /users/:id
AdminUpdateUser(a, u, tier, status) ==
    /\ authenticateAdmin(a)
    /\ requirePermission(a, "user_management")
    /\ IF ~Exists(u)
       THEN /\ last' = Done("adminUpdateUser", FALSE, u, 0, Absent, FALSE)
            /\ UNCHANGED users
       ELSE /\ users' = [users EXCEPT ![u] = UpdatedUser(@, tier, status)]
            /\ last' = Done("adminUpdateUser", TRUE, u, 0, status, FALSE)
    /\ UNCHANGED <<subs, grants, admins, tokens, now, reqs, auditUp>>
    /\ auditLog' = appendLog(auditLog, last'.audit)

\* PUT /admin/users/:id/subscription: the assignments and the two consistency rules
UpdatedUserSubscription(user, status, tier) ==
    LET u1 == UpdatedUser(user, tier, status)
        u2 == IF u1.subscriptionTier \in {"premium", "enterprise"}
                 /\ u1.subscriptionStatus = "inactive"
              THEN [u1 EXCEPT !.subscriptionStatus = "active"] ELSE u1
    IN IF u2.subscriptionStatus = "inactive" /\ u2.subscriptionTier # "free"
       THEN [u2 EXCEPT !.subscriptionTier = "free"] ELSE u2

\* PUT /admin/users/:id/subscription
AdminUpdateUserSubscription(a, u, status, tier) ==
    /\ authenticateAdmin(a)
    /\ IF ~Exists(u)
       THEN /\ last' = Done("adminUpdateUserSubscription", FALSE, u, 0, Absent, FALSE)
            /\ UNCHANGED users
       ELSE /\ users' = [users EXCEPT ![u] = UpdatedUserSubscription(@, status, tier)]
            /\ last' = Done("adminUpdateUserSubscription", TRUE, u, 0, status, FALSE)
    /\ UNCHANGED <<subs, grants, admins, tokens, now, reqs, auditUp>>
    /\ auditLog' = appendLog(auditLog, last'.audit)

\* POST /admin/users
AdminCreateUser(a, e, paid) ==
    /\ authenticateAdmin(a)
    /\ IF Exists(e)
       THEN /\ last' = Done("adminCreateUser", FALSE, e, 0, Absent, FALSE)
            /\ UNCHANGED users
       ELSE /\ users' = [users EXCEPT ![e] =
                           [NewUser EXCEPT !.subscriptionStatus = IF paid THEN "active" ELSE "inactive",
                                           !.subscriptionTier = IF paid THEN "premium" ELSE "free",
                                           !.isEmailVerified = TRUE]]
            /\ last' = Done("adminCreateUser", TRUE, e, 0, Absent, FALSE)
    /\ UNCHANGED <<subs, grants, admins, tokens, now, reqs, auditUp>>
    /\ auditLog' = appendLog(auditLog, last'.audit)

(***************************************************************************)
(* Admin management (routes/admin.js) and the audit store.                 *)
(***************************************************************************)
AdminRoles == {"admin", "super_admin"}

\* the permissions field of a request body: left out, or a tightened list
PermissionLists == {<<>>, <<{"content_management"}>>}

\* adminUserSchema.pre('save'): a new grant, or one whose role was modified,
\* gets the permissions of its role
SavedAdmin(admin, isNew, roleModified) ==
    IF isNew \/ roleModified
    THEN [admin EXCEPT !.permissions = DefaultPermissions(admin.role)]
    ELSE admin

\* new AdminUser({userId, role: role || 'admin', permissions, createdBy}).  A
\* body field is a sequence, empty when the field is left out.
NewAdmin(role, permissions) ==
    [role |-> role,
     permissions |-> IF permissions # <<>> THEN permissions[1] ELSE {},
     isActive |-> TRUE]

\* POST /admin
CreateAdmin(a, u, role, permissions) ==
    /\ authenticateAdmin(a)
    /\ requirePermission(a, "admin_management")
    /\ IF ~Exists(u) \/ admins[u] # NoAdmin
       THEN /\ last' = Done("createAdmin", FALSE, u, 0, Absent, FALSE)
            /\ UNCHANGED admins
       ELSE /\ admins' = [admins EXCEPT ![u] = SavedAdmin(NewAdmin(role, permissions), TRUE, FALSE)]
            /\ last' = Done("createAdmin", TRUE, u, 0, Absent, FALSE)
    /\ UNCHANGED <<users, subs, grants, tokens, now, reqs, auditUp>>
    /\ auditLog' = appendLog(auditLog, last'.audit)

\* PUT /admin/:id: the assignments and the save
UpdatedAdmin(admin, role, permissions, isActive) ==
    LET assigned == [role |-> IF role # Absent THEN role ELSE admin.role,
                     permissions |-> IF permissions # <<>> THEN permissions[1]
                                     ELSE admin.permissions,
                     isActive |-> IF isActive # <<>> THEN isActive[1] ELSE admin.isActive]
    IN SavedAdmin(assigned, FALSE, assigned.role # admin.role)

\* PUT /admin/:id
UpdateAdmin(a, u, role, permissions, isActive) ==
    /\ authenticateAdmin(a)
    /\ requirePermission(a, "admin_management")
    /\ IF admins[u] = NoAdmin
       THEN /\ last' = Done("updateAdmin", FALSE, u, 0, Absent, FALSE)
            /\ UNCHANGED admins
       ELSE /\ admins' = [admins EXCEPT ![u] = UpdatedAdmin(@, role, permissions, isActive)]
            /\ last' = Done("updateAdmin", TRUE, u, 0, role, FALSE)
    /\ UNCHANGED <<users, subs, grants, tokens, now, reqs, auditUp>>
    /\ auditLog' = appendLog(auditLog, last'.audit)

\* DELETE /admin/:id
DeactivateAdmin(a, u) ==
    /\ authenticateAdmin(a)
    /\ requirePermission(a, "admin_management")
    /\ IF admins[u] = NoAdmin \/ u = a
       THEN /\ last' = Done("deactivateAdmin", FALSE, u, 0, Absent, FALSE)
            /\ UNCHANGED admins
       ELSE /\ admins' = [admins EXCEPT ![u] = [@ EXCEPT !.isActive = FALSE]]
            /\ last' = Done("deactivateAdmin", TRUE, u, 0, Absent, FALSE)
    /\ UNCHANGED <<users, subs, grants, tokens, now, reqs, auditUp>>
    /\ auditLog' = appendLog(auditLog, last'.audit)

\* a variant of the delete route that also deletes the audit entries about the account
DeleteUserWithTrail(a, u) ==
    /\ authenticateAdmin(a)
    /\ requirePermission(a, "user_management")
    /\ IF ~Exists(u)
       THEN /\ last' = Done("deleteUser", FALSE, u, 0, Absent, FALSE)
            /\ UNCHANGED <<users, subs, grants>>
       ELSE /\ subs' = [s \in SubIds |->
                          IF subs[s] # NoSub /\ subs[s].userId = u THEN NoSub ELSE subs[s]]
            /\ grants' = [g \in GrantIds |->
                            IF grants[g] # NoGrant /\ grants[g].userId = u
                            THEN NoGrant ELSE grants[g]]
            /\ users' = [users EXCEPT ![u] = NoUser]
            /\ last' = Done("deleteUser", TRUE, u, 0, Absent, FALSE)
    /\ UNCHANGED <<admins, tokens, now, reqs, auditUp>>
    /\ LET Kept(entry) == entry.resourceId # u \/ ~last'.ok IN
       auditLog' = appendLog(SelectSeq(auditLog, Kept), last'.audit)

\* DELETE /users/:id: the account with its subscriptions and grants
DeleteUser(a, u) ==
    /\ authenticateAdmin(a)
    /\ requirePermission(a, "user_management")
    /\ IF ~Exists(u)
       THEN /\ last' = Done("deleteUser", FALSE, u, 0, Absent, FALSE)
            /\ UNCHANGED <<users, subs, grants>>
       ELSE /\ subs' = [s \in SubIds |->
                          IF subs[s] # NoSub /\ subs[s].userId = u THEN NoSub ELSE subs[s]]
            /\ grants' = [g \in GrantIds |->
                            IF grants[g] # NoGrant /\ grants[g].userId = u
                            THEN NoGrant ELSE grants[g]]
            /\ users' = [users EXCEPT ![u] = NoUser]
            /\ last' = Done("deleteUser", TRUE, u, 0, Absent, FALSE)
    /\ UNCHANGED <<admins, tokens, now, reqs, auditUp>>
    /\ auditLog' = appendLog(auditLog, last'.audit)

\* a request that authenticateAdmin or requirePermission(permission) answers
\* with 403: the handler does not run
DeniedRequest(a, permission) ==
    /\ authenticate(a)
    /\ ~(authenticateAdmin(a) /\ requirePermission(a, permission))
    /\ last' = IF isAdmin(a)
               THEN Done("forbidden", FALSE, a, 0, permission, FALSE)
               ELSE Logged(Done("forbidden", FALSE, a, 0, permission, FALSE),
                           EventOf("unauthorized"))
    /\ UNCHANGED <<users, subs, grants, admins, tokens, now, reqs, auditUp>>
    /\ auditLog' = appendLog(auditLog, last'.audit)

\* the audit collection stops taking writes, and takes them again
AuditStoreFails ==
    /\ auditUp
    /\ auditUp' = FALSE
    /\ UNCHANGED <<users, subs, grants, admins, tokens, now, reqs, last, auditLog>>

AuditStoreRecovers ==
    /\ ~auditUp
    /\ auditUp' = TRUE
    /\ UNCHANGED <<users, subs, grants, admins, tokens, now, reqs, last, auditLog>>

(***************************************************************************)
(* Content access (models/ContentAccess.js, routes/content.js).            *)
(***************************************************************************)
\* the times a grant may be given as its expiry; NoDate is expiresAt: null
ExpiryTimes == {NoDate} \cup (1..MaxTime)

\* the expiry instants a run reaches and outlives
EarlyExpiryTimes == {NoDate} \cup (1..(MaxTime - 1))

\* a variant of the filter in which a grant is still valid at its expiry instant
ValidGrantInclusive(g, u, contentType, contentId) ==
    /\ g # NoGrant
    /\ g.userId = u /\ g.contentType = contentType /\ g.contentId = contentId
    /\ g.accessGranted
    /\ (g.expiresAt = NoDate \/ g.expiresAt >= now)

\* a variant of the filter that does not look at expiresAt
ValidGrantWithoutExpiry(g, u, contentType, contentId) ==
    /\ g # NoGrant
    /\ g.userId = u /\ g.contentType = contentType /\ g.contentId = contentId
    /\ g.accessGranted

\* the document matches the filter of checkAccess's findOne
ValidGrant(g, u, contentType, contentId) ==
    /\ g # NoGrant
    /\ g.userId = u /\ g.contentType = contentType /\ g.contentId = contentId
    /\ g.accessGranted
    /\ (g.expiresAt = NoDate \/ g.expiresAt > now)

\* ContentAccess.checkAccess
checkAccess(u, contentType, contentId) ==
    IF ~Exists(u) THEN FALSE
    ELSE IF hasActiveSubscription(users[u]) THEN TRUE
    ELSE \E g \in GrantIds : ValidGrant(grants[g], u, contentType, contentId)

\* the documents matching {userId, contentType, contentId}
GrantsOf(u, contentType, contentId) ==
    {g \in GrantIds : /\ grants[g] # NoGrant
                      /\ grants[g].userId = u
                      /\ grants[g].contentType = contentType
                      /\ grants[g].contentId = contentId}

FreeGrantIds == {g \in GrantIds : grants[g] = NoGrant}

First(S) == CHOOSE x \in S : \A y \in S : x <= y

\* ContentAccess.grantAccess: findOneAndUpdate with upsert
grantAccess(u, contentType, contentId, expiresAt) ==
    IF GrantsOf(u, contentType, contentId) # {}
    THEN [grants EXCEPT ![First(GrantsOf(u, contentType, contentId))] =
            [@ EXCEPT !.accessGranted = TRUE, !.expiresAt = expiresAt]]
    ELSE [grants EXCEPT ![First(FreeGrantIds)] =
            [userId |-> u, contentType |-> contentType, contentId |-> contentId,
             accessGranted |-> TRUE, expiresAt |-> expiresAt]]

\* ContentAccess.revokeAccess: findOneAndUpdate without upsert
revokeAccess(u, contentType, contentId) ==
    IF GrantsOf(u, contentType, contentId) # {}
    THEN [grants EXCEPT ![First(GrantsOf(u, contentType, contentId))] =
            [@ EXCEPT !.accessGranted = FALSE]]
    ELSE grants

\* POST /content/admin/grant-access
GrantAccess(a, u, contentType, contentId, expiresAt) ==
    /\ authenticateAdmin(a)
    /\ requirePermission(a, "content_management")
    /\ GrantsOf(u, contentType, contentId) # {} \/ FreeGrantIds # {}
    /\ grants' = grantAccess(u, contentType, contentId, expiresAt)
    /\ last' = [Done("grantAccess", TRUE, u, 0, Absent, FALSE)
                  EXCEPT !.content = <<contentType, contentId>>]
    /\ UNCHANGED <<users, subs, admins, tokens, now, reqs, auditUp>>
    /\ auditLog' = appendLog(auditLog, last'.audit)

\* a variant of the revoke route that answers an error when no record matched
RevokeAccessStrict(a, u, contentType, contentId) ==
    /\ authenticateAdmin(a)
    /\ requirePermission(a, "content_management")
    /\ grants' = revokeAccess(u, contentType, contentId)
    /\ last' = [Done("revokeAccess", GrantsOf(u, contentType, contentId) # {}, u, 0, Absent, FALSE)
                  EXCEPT !.content = <<contentType, contentId>>]
    /\ UNCHANGED <<users, subs, admins, tokens, now, reqs, auditUp>>
    /\ auditLog' = appendLog(auditLog, last'.audit)

\* POST /content/admin/revoke-access
RevokeAccess(a, u, contentType, contentId) ==
    /\ authenticateAdmin(a)
    /\ requirePermission(a, "content_management")
    /\ grants' = revokeAccess(u, contentType, contentId)
    /\ last' = [Done("revokeAccess", TRUE, u, 0, Absent, FALSE)
                  EXCEPT !.content = <<contentType, contentId>>]
    /\ UNCHANGED <<users, subs, admins, tokens, now, reqs, auditUp>>
    /\ auditLog' = appendLog(auditLog, last'.audit)

\* checkContentAccess(accountId, contentType, contentId): the resolver's answer
CheckAccess(u, contentType, contentId) ==
    /\ last' = [Done("checkAccess", TRUE, u, 0, Absent, checkAccess(u, contentType, contentId))
                  EXCEPT !.content = <<contentType, contentId>>,
                         !.audit = IF Exists(u) THEN @ ELSE <<>>]
    /\ UNCHANGED <<users, subs, grants, admins, tokens, now, reqs, auditUp>>
    /\ auditLog' = appendLog(auditLog, last'.audit)

(***************************************************************************)
(* subscription.save() split at its awaits: the handler's own query, the   *)
(* hook's findById, the hook's query for other active subscriptions, the   *)
(* hook's user.save(), and the write of the subscription document.         *)
(***************************************************************************)
Idle(r) == reqs[r].pc = "idle"

IdleReqs == {r \in ReqIds : Idle(r)}

\* the _ids of documents created by requests still running
ReservedSubIds == {reqs[r].sid : r \in ReqIds \ IdleReqs}

AvailableSubIds == FreeSubIds \ ReservedSubIds

\* the request after its handler loaded (or built) the document and called save()
SaveRequest(op, sid, loaded, doc) ==
    [pc |-> "hookUser", op |-> op, sid |-> sid, loaded |-> loaded, doc |-> doc,
     snap |-> NoUser, others |-> {}, wrote |-> FALSE]

\* this.isModified('status') || this.isNew, for the document of a request
Fires(req) == IF req.loaded = NoSub THEN TRUE ELSE req.loaded.status # req.doc.status

BeginCreate(r, u, planId) ==
    /\ IdleReqs # {} /\ r = First(IdleReqs)
    /\ authenticate(u)
    /\ ~ExistingSubscription(u)
    /\ AvailableSubIds # {}
    /\ reqs' = [reqs EXCEPT ![r] = SaveRequest("createSubscription", First(AvailableSubIds),
                                               NoSub, NewSubscription(u, planId))]
    /\ UNCHANGED <<users, subs, grants, admins, tokens, now, last, auditUp, auditLog>>

BeginCancel(r, u, sid) ==
    /\ IdleReqs # {} /\ r = First(IdleReqs)
    /\ authenticate(u)
    /\ subs[sid] # NoSub /\ subs[sid].userId = u /\ subs[sid].status = "active"
    /\ reqs' = [reqs EXCEPT ![r] = SaveRequest("cancelSubscription", sid, subs[sid],
                                               CancelledSubscription(subs[sid]))]
    /\ UNCHANGED <<users, subs, grants, admins, tokens, now, last, auditUp, auditLog>>

BeginAdminUpdate(r, a, sid, status) ==
    /\ IdleReqs # {} /\ r = First(IdleReqs)
    /\ authenticateAdmin(a)
    /\ requirePermission(a, "subscription_management")
    /\ subs[sid] # NoSub
    /\ reqs' = [reqs EXCEPT ![r] = SaveRequest("adminUpdateSubscription", sid, subs[sid],
                                               AdminUpdatedSubscription(subs[sid], status))]
    /\ UNCHANGED <<users, subs, grants, admins, tokens, now, last, auditUp, auditLog>>

\* const user = await User.findById(this.userId)
HookFindUser(r) ==
    /\ reqs[r].pc = "hookUser"
    /\ LET req == reqs[r]
           user == users[req.doc.userId] IN
       reqs' = [reqs EXCEPT ![r] =
                  IF ~Fires(req) \/ user = NoUser THEN [req EXCEPT !.pc = "write"]
                  ELSE [req EXCEPT !.snap = user,
                                   !.pc = IF HookScans(req.doc) THEN "hookScan" ELSE "hookSave"]]
    /\ UNCHANGED <<users, subs, grants, admins, tokens, now, last, auditUp, auditLog>>

\* const activeSubscriptions = await Subscription.find({...})
HookScan(r) ==
    /\ reqs[r].pc = "hookScan"
    /\ LET req == reqs[r] IN
       reqs' = [reqs EXCEPT ![r] =
                  [req EXCEPT !.others = OtherActive(subs, req.doc.userId, req.sid),
                              !.pc = "hookSave"]]
    /\ UNCHANGED <<users, subs, grants, admins, tokens, now, last, auditUp, auditLog>>

\* await user.save()
HookSave(r) ==
    /\ reqs[r].pc = "hookSave"
    /\ LET req == reqs[r]
           changed == HookUser(req.snap, req.doc, req.others) IN
       /\ users' = [users EXCEPT ![req.doc.userId] = SaveUser(@, req.snap, changed)]
       /\ reqs' = [reqs EXCEPT ![r] = [req EXCEPT !.wrote = (changed # req.snap),
                                                  !.pc = "write"]]
    /\ UNCHANGED <<subs, grants, admins, tokens, now, last, auditUp, auditLog>>

\* a variant of the write that drops a new document when its owner holds an
\* active subscription by then
WriteSubRechecking(r) ==
    /\ reqs[r].pc = "write"
    /\ LET req == reqs[r] IN
       /\ subs' = IF req.loaded = NoSub /\ ExistingSubscription(req.doc.userId)
                  THEN subs
                  ELSE [subs EXCEPT ![req.sid] = SaveSub(@, req.loaded, req.doc)]
       /\ last' = Done(req.op, TRUE, req.doc.userId, req.sid, req.doc.status, FALSE)
    /\ reqs' = [reqs EXCEPT ![r] = NoReq]
    /\ UNCHANGED <<users, grants, admins, tokens, now, auditUp>>
    /\ auditLog' = appendLog(auditLog, last'.audit)

\* next(): the document itself is written and the handler answers
WriteSub(r) ==
    /\ reqs[r].pc = "write"
    /\ LET req == reqs[r] IN
       /\ subs' = [subs EXCEPT ![req.sid] = SaveSub(@, req.loaded, req.doc)]
       /\ last' = Done(req.op, TRUE, req.doc.userId, req.sid, req.doc.status, FALSE)
    /\ reqs' = [reqs EXCEPT ![r] = NoReq]
    /\ UNCHANGED <<users, grants, admins, tokens, now, auditUp>>
    /\ auditLog' = appendLog(auditLog, last'.audit)

(***************************************************************************)
(* grantAccess's findOneAndUpdate with upsert when no document matches:    *)
(* the store finds no match, then inserts.  No unique index covers the     *)
(* triple, so another upsert may run between the two.                      *)
(***************************************************************************)
\* the upsert after its query matched nothing
UpsertRequest(u, contentType, contentId, expiresAt) ==
    [pc |-> "insert", op |-> "grantAccess", u |-> u, contentType |-> contentType,
     contentId |-> contentId, expiresAt |-> expiresAt]

BeginGrant(r, a, u, contentType, contentId, expiresAt) ==
    /\ IdleReqs # {} /\ r = First(IdleReqs)
    /\ authenticateAdmin(a)
    /\ requirePermission(a, "content_management")
    /\ GrantsOf(u, contentType, contentId) = {}
    /\ reqs' = [reqs EXCEPT ![r] = UpsertRequest(u, contentType, contentId, expiresAt)]
    /\ UNCHANGED <<users, subs, grants, admins, tokens, now, last, auditUp, auditLog>>

InsertGrant(r) ==
    /\ reqs[r].pc = "insert"
    /\ FreeGrantIds # {}
    /\ LET req == reqs[r] IN
       /\ grants' = [grants EXCEPT ![First(FreeGrantIds)] =
                       [userId |-> req.u, contentType |-> req.contentType,
                        contentId |-> req.contentId,
                        accessGranted |-> TRUE, expiresAt |-> req.expiresAt]]
       /\ last' = [Done("grantAccess", TRUE, req.u, 0, Absent, FALSE)
                     EXCEPT !.content = <<req.contentType, req.contentId>>]
    /\ reqs' = [reqs EXCEPT ![r] = NoReq]
    /\ UNCHANGED <<users, subs, admins, tokens, now, auditUp>>
    /\ auditLog' = appendLog(auditLog, last'.audit)

(***************************************************************************)
(* Admin grants created concurrently: POST /admin split at its awaits (the *)
(* handler's two queries, then adminUser.save()), and the bootstrap of the *)
(* hardcoded login (findOne, user.save(), adminUser.save()).  The unique   *)
(* indexes on AdminUser.userId and User.email reject a second insert.      *)
(***************************************************************************)
AdminRequest(u, role, permissions) ==
    [pc |-> "insertAdmin", op |-> "createAdmin", u |-> u, role |-> role,
     permissions |-> permissions]

\* POST /admin up to its save: the account exists and has no grant
BeginCreateAdmin(r, a, u, role, permissions) ==
    /\ IdleReqs # {} /\ r = First(IdleReqs)
    /\ authenticateAdmin(a)
    /\ requirePermission(a, "admin_management")
    /\ Exists(u)
    /\ admins[u] = NoAdmin
    /\ reqs' = [reqs EXCEPT ![r] = AdminRequest(u, role, permissions)]
    /\ UNCHANGED <<users, subs, grants, admins, tokens, now, last, auditUp, auditLog>>

\* a variant of the save on a collection without the unique index
InsertAdminNoIndex(r) ==
    /\ reqs[r].pc = "insertAdmin"
    /\ LET req == reqs[r] IN
       /\ admins' = [admins EXCEPT ![req.u] =
                       SavedAdmin(NewAdmin(req.role, req.permissions), TRUE, FALSE)]
       /\ last' = Done("createAdmin", TRUE, req.u, 0, Absent, FALSE)
    /\ reqs' = [reqs EXCEPT ![r] = NoReq]
    /\ UNCHANGED <<users, subs, grants, tokens, now, auditUp>>
    /\ auditLog' = appendLog(auditLog, last'.audit)

\* adminUser.save(): the unique index on userId rejects a second grant of the
\* account, and the handler's catch answers 500
InsertAdmin(r) ==
    /\ reqs[r].pc = "insertAdmin"
    /\ LET req == reqs[r] IN
       IF admins[req.u] # NoAdmin
       THEN /\ last' = Done("createAdmin", FALSE, req.u, 0, "duplicate_key", FALSE)
            /\ UNCHANGED admins
       ELSE /\ admins' = [admins EXCEPT ![req.u] =
                            SavedAdmin(NewAdmin(req.role, req.permissions), TRUE, FALSE)]
            /\ last' = Done("createAdmin", TRUE, req.u, 0, Absent, FALSE)
    /\ reqs' = [reqs EXCEPT ![r] = NoReq]
    /\ UNCHANGED <<users, subs, grants, tokens, now, auditUp>>
    /\ auditLog' = appendLog(auditLog, last'.audit)

\* the hardcoded login after User.findOne({email}) found no account
BeginBootstrap(r) ==
    /\ IdleReqs # {} /\ r = First(IdleReqs)
    /\ ~Exists(ADMIN_EMAIL)
    /\ reqs' = [reqs EXCEPT ![r] = [pc |-> "bootUser", op |-> "adminLogin"]]
    /\ UNCHANGED <<users, subs, grants, admins, tokens, now, last, auditUp, auditLog>>

\* user.save(): the unique index on email rejects a second account
BootSaveUser(r) ==
    /\ reqs[r].pc = "bootUser"
    /\ IF Exists(ADMIN_EMAIL)
       THEN /\ last' = Done("adminLogin", FALSE, ADMIN_EMAIL, 0, "duplicate_key", FALSE)
            /\ reqs' = [reqs EXCEPT ![r] = NoReq]
            /\ UNCHANGED users
       ELSE /\ users' = [users EXCEPT ![ADMIN_EMAIL] =
                           [NewUser EXCEPT !.subscriptionTier = "enterprise",
                                           !.subscriptionStatus = "active"]]
            /\ reqs' = [reqs EXCEPT ![r] = [pc |-> "bootAdmin", op |-> "adminLogin"]]
            /\ UNCHANGED last
    /\ UNCHANGED <<subs, grants, admins, tokens, now, auditUp>>
    /\ auditLog' = appendLog(auditLog, IF last' # last THEN last'.audit ELSE <<>>)

\* adminUser.save() of the bootstrap, then the tokens and the audit entry
BootSaveAdmin(r) ==
    /\ reqs[r].pc = "bootAdmin"
    /\ IF admins[ADMIN_EMAIL] # NoAdmin
       THEN /\ last' = Done("adminLogin", FALSE, ADMIN_EMAIL, 0, "duplicate_key", FALSE)
            /\ UNCHANGED <<admins, tokens>>
       ELSE /\ admins' = [admins EXCEPT ![ADMIN_EMAIL] =
                            SavedAdmin(NewAdmin("super_admin", <<>>), TRUE, FALSE)]
            /\ tokens' = tokens \cup {ADMIN_EMAIL}
            /\ last' = Done("adminLogin", TRUE, ADMIN_EMAIL, 0, Absent, TRUE)
    /\ reqs' = [reqs EXCEPT ![r] = NoReq]
    /\ UNCHANGED <<users, subs, grants, now, auditUp>>
    /\ auditLog' = appendLog(auditLog, last'.audit)

(***************************************************************************)
(* POST /login split at the await of bcrypt.compare: the route loads the   *)
(* account and comparePassword tests the lock, then the comparison runs,   *)
(* then comparePassword assigns to the loaded document and saves it.       *)
(***************************************************************************)
LoginRequest(e, isMatch) ==
    [pc |-> "compare", op |-> "login", u |-> e, snap |-> users[e], isMatch |-> isMatch]

\* User.findOne({email}), the registration test and the lock test
BeginLogin(r, e, isMatch) ==
    /\ IdleReqs # {} /\ r = First(IdleReqs)
    /\ Exists(e)
    /\ users[e].registrationStatus = "approved"
    /\ ~isLocked(users[e])
    /\ users[e].loginAttempts < MaxAttempts
    /\ reqs' = [reqs EXCEPT ![r] = LoginRequest(e, isMatch)]
    /\ UNCHANGED <<users, subs, grants, admins, tokens, now, last, auditUp, auditLog>>

\* the rest of comparePassword and of the route: this.save() writes the paths
\* assigned on the loaded document
SaveLogin(r) ==
    /\ reqs[r].pc = "compare"
    /\ LET req == reqs[r]
           changed == comparePasswordUser(req.snap, req.isMatch) IN
       /\ users' = [users EXCEPT ![req.u] = SaveUser(@, req.snap, changed)]
       /\ tokens' = IF req.isMatch THEN tokens \cup {req.u} ELSE tokens
       /\ last' = IF req.isMatch
                  THEN Done("login", TRUE, req.u, 0, Absent, TRUE)
                  ELSE Logged(Done("login", FALSE, req.u, 0, Absent, FALSE),
                              Event("login_failed", "medium"))
    /\ reqs' = [reqs EXCEPT ![r] = NoReq]
    /\ UNCHANGED <<subs, grants, admins, now, auditUp>>
    /\ auditLog' = appendLog(auditLog, last'.audit)

Init ==
    /\ users = [u \in UserIds |-> NoUser]
    /\ subs = [s \in SubIds |-> NoSub]
    /\ grants = [g \in GrantIds |-> NoGrant]
    /\ admins = [u \in UserIds |-> NoAdmin]
    /\ tokens = {}
    /\ now = 0
    /\ reqs = [r \in ReqIds |-> NoReq]
    /\ last = NoOp
    /\ auditUp = TRUE
    /\ auditLog = <<>>

Registering ==
    \/ \E e \in UserIds : Register(e)
    \/ AdminLoginHardcoded

Approving == \E a, u \in UserIds : RegistrationStatus(a, u, "approve")

Deciding == \E a, u \in UserIds, action \in {"approve", "reject"} : RegistrationStatus(a, u, action)

Subscribing ==
    \/ \E u \in UserIds, planId \in PlanIds : CreateSubscription(u, planId)
    \/ \E u \in UserIds, sid \in SubIds : CancelSubscription(u, sid)
    \/ \E a \in UserIds, sid \in SubIds, status \in SubStatuses \cup {Absent} :
          AdminUpdateSubscription(a, sid, status)

\* the subscription lifecycle: accounts, approval, and the three operations that
\* save a Subscription
Next == Registering \/ Approving \/ Subscribing

Spec == Init /\ [][Next]_vars

\* the lifecycle beside the admin routes that write the account's projection
NextDirect ==
    \/ Registering
    \/ \E u \in UserIds : CreateSubscription(u, "premium_monthly")
    \/ \E u \in UserIds, sid \in SubIds : CancelSubscription(u, sid)
    \/ \E a, u \in UserIds, tier \in SubscriptionTiers \cup {Absent},
          status \in SubscriptionStatuses \cup {Absent} : AdminUpdateUser(a, u, tier, status)
    \/ \E a, u \in UserIds, tier \in SubscriptionTiers \cup {Absent},
          status \in SubscriptionStatuses \cup {Absent} :
          AdminUpdateUserSubscription(a, u, status, tier)

SpecDirect == Init /\ [][NextDirect]_vars

\* the registration state machine
NextReg ==
    \/ Registering
    \/ \E e \in UserIds : RegisterWithPayment(e)
    \/ Deciding
    \/ fixExistingUsers
    \/ fixAllUsers
    \/ \E a, e \in UserIds, paid \in BOOLEAN : AdminCreateUser(a, e, paid)
    \/ \E a, u \in UserIds, tier \in SubscriptionTiers \cup {Absent},
          status \in SubscriptionStatuses \cup {Absent} :
          AdminUpdateUserSubscription(a, u, status, tier)

SpecReg == Init /\ [][NextReg]_vars

\* who gets a token
NextAuth ==
    \/ Registering
    \/ \E e \in UserIds : RegisterWithPayment(e)
    \/ Deciding
    \/ \E e \in UserIds, isMatch \in BOOLEAN : Login(e, isMatch)
    \/ \E e \in UserIds, isMatch \in BOOLEAN : AdminLogin(e, isMatch)
    \/ Tick

SpecAuth == Init /\ [][NextAuth]_vars

\* the resolver.  The account's projection is varied through PUT /users/:id
\* with the inputs that lower it.
NextAccess ==
    \/ Registering
    \/ \E a, u \in UserIds, status \in {"inactive", Absent} :
          AdminUpdateUser(a, u, "free", status)
    \/ \E a, u \in UserIds, contentType \in ContentTypes, contentId \in ContentIds,
          expiresAt \in EarlyExpiryTimes : GrantAccess(a, u, contentType, contentId, expiresAt)
    \/ \E a, u \in UserIds, contentType \in ContentTypes, contentId \in ContentIds :
          RevokeAccess(a, u, contentType, contentId)
    \/ \E u \in UserIds, contentType \in ContentTypes, contentId \in ContentIds :
          CheckAccess(u, contentType, contentId)
    \/ Tick

SpecAccess == Init /\ [][NextAccess]_vars

\* create and cancel running concurrently, one step per await
NextConc ==
    \/ \E e \in UserIds : Register(e)
    \/ \E r \in ReqIds, u \in UserIds, planId \in PlanIds : BeginCreate(r, u, planId)
    \/ \E r \in ReqIds, u \in UserIds, sid \in SubIds : BeginCancel(r, u, sid)
    \/ \E r \in ReqIds : HookFindUser(r)
    \/ \E r \in ReqIds : HookScan(r)
    \/ \E r \in ReqIds : HookSave(r)
    \/ \E r \in ReqIds : WriteSub(r)

SpecConc == Init /\ [][NextConc]_vars

\* the three saving operations with store writes that may fail
NextFail ==
    \/ Registering
    \/ \E u \in UserIds, userFail, subFail \in BOOLEAN :
          CreateSubscriptionF(u, "premium_monthly", userFail, subFail)
    \/ \E u \in UserIds, sid \in SubIds, userFail, subFail \in BOOLEAN :
          CancelSubscriptionF(u, sid, userFail, subFail)
    \/ \E a \in UserIds, sid \in SubIds, status \in {"active", "expired"},
          userFail, subFail \in BOOLEAN :
          AdminUpdateSubscriptionF(a, sid, status, userFail, subFail)

SpecFail == Init /\ [][NextFail]_vars

\* subscriptions beside grants: an admin ends subscriptions of accounts that
\* may hold grants
NextCancel ==
    \/ Registering
    \/ \E u \in UserIds, planId \in PlanIds : CreateSubscription(u, planId)
    \/ \E a \in UserIds, sid \in SubIds, status \in {"active", "cancelled"} :
          AdminUpdateSubscription(a, sid, status)
    \/ \E a, u \in UserIds, contentType \in ContentTypes, contentId \in ContentIds,
          expiresAt \in {NoDate, 1} : GrantAccess(a, u, contentType, contentId, expiresAt)
    \/ Tick

SpecCancel == Init /\ [][NextCancel]_vars

\* grants given concurrently
NextGrantConc ==
    \/ Registering
    \/ \E a, u \in UserIds, contentType \in ContentTypes, contentId \in ContentIds,
          expiresAt \in {NoDate, 1} : GrantAccess(a, u, contentType, contentId, expiresAt)
    \/ \E r \in ReqIds, a, u \in UserIds, contentType \in ContentTypes,
          contentId \in ContentIds, expiresAt \in {NoDate, 1} :
          BeginGrant(r, a, u, contentType, contentId, expiresAt)
    \/ \E r \in ReqIds : InsertGrant(r)

SpecGrantConc == Init /\ [][NextGrantConc]_vars

\* the privileged operations beside an audit store that may be down: the
\* hardcoded administrator acts on the other account
NextAudit ==
    \/ Registering
    \/ \E action \in {"approve", "reject"} : RegistrationStatus(ADMIN_EMAIL, MaxUsers, action)
    \/ CreateSubscription(MaxUsers, "premium_monthly")
    \/ \E sid \in SubIds : CancelSubscription(MaxUsers, sid)
    \/ \E sid \in SubIds : AdminUpdateSubscription(ADMIN_EMAIL, sid, "expired")
    \/ GrantAccess(ADMIN_EMAIL, MaxUsers, "magazine", "42", NoDate)
    \/ RevokeAccess(ADMIN_EMAIL, MaxUsers, "magazine", "42")
    \/ \E role \in AdminRoles : CreateAdmin(ADMIN_EMAIL, MaxUsers, role, <<>>)
    \/ \E role \in AdminRoles \cup {Absent}, isActive \in {<<>>, <<TRUE>>} :
          UpdateAdmin(ADMIN_EMAIL, MaxUsers, role, <<>>, isActive)
    \/ \E u \in UserIds : DeactivateAdmin(ADMIN_EMAIL, u)
    \/ AuditStoreFails

SpecAudit == Init /\ [][NextAudit]_vars

\* the audit trail beside the operations that remove documents
NextTrail ==
    \/ Registering
    \/ \E u \in UserIds : RegistrationStatus(ADMIN_EMAIL, u, "approve")
    \/ \E u \in UserIds : CreateSubscription(u, "premium_monthly")
    \/ \E a, u \in UserIds : DeleteUser(a, u)
    \/ AuditStoreFails
    \/ AuditStoreRecovers

SpecTrail == Init /\ [][NextTrail]_vars

\* the guard: admins of both roles, tightened and deactivated grants, and the
\* requests of every authenticated account
NextGuard ==
    \/ Registering
    \/ \E a, u \in UserIds : RegistrationStatus(a, u, "approve")
    \/ \E e \in UserIds : Login(e, TRUE)
    \/ \E a, u \in UserIds, role \in AdminRoles : CreateAdmin(a, u, role, <<>>)
    \/ \E a, u \in UserIds, permissions \in PermissionLists, isActive \in {<<>>, <<FALSE>>} :
          UpdateAdmin(a, u, Absent, permissions, isActive)
    \/ \E a, u \in UserIds : DeactivateAdmin(a, u)
    \/ \E a, u \in UserIds : GrantAccess(a, u, "magazine", "42", NoDate)
    \/ \E a, u \in UserIds : AdminUpdateUser(a, u, "free", Absent)
    \/ \E a \in UserIds, permission \in AllPermissions : DeniedRequest(a, permission)

SpecGuard == Init /\ [][NextGuard]_vars

\* admin management: grants of both roles, created and updated with and
\* without a permission list, by every admin
NextAdmins ==
    \/ Registering
    \/ \E e \in UserIds : Login(e, TRUE)
    \/ \E a, u \in UserIds : RegistrationStatus(a, u, "approve")
    \/ \E a, u \in UserIds, role \in AdminRoles, permissions \in PermissionLists :
          CreateAdmin(a, u, role, permissions)
    \/ \E a, u \in UserIds, role \in AdminRoles \cup {Absent}, permissions \in PermissionLists,
          isActive \in {<<>>, <<TRUE>>, <<FALSE>>} : UpdateAdmin(a, u, role, permissions, isActive)
    \/ \E a, u \in UserIds : DeactivateAdmin(a, u)

SpecAdmins == Init /\ [][NextAdmins]_vars

\* admin grants created concurrently, beside the bootstrap
NextAdminConc ==
    \/ \E e \in UserIds : Register(e)
    \/ AdminLoginHardcoded
    \/ \E r \in ReqIds, a, u \in UserIds, role \in AdminRoles :
          BeginCreateAdmin(r, a, u, role, <<>>)
    \/ \E r \in ReqIds : InsertAdmin(r)
    \/ \E a, u \in UserIds, role \in AdminRoles : CreateAdmin(a, u, role, <<>>)
    \/ \E a, u \in UserIds : DeactivateAdmin(a, u)
    \/ \E r \in ReqIds : BeginBootstrap(r)
    \/ \E r \in ReqIds : BootSaveUser(r)
    \/ \E r \in ReqIds : BootSaveAdmin(r)

SpecAdminConc == Init /\ [][NextAdminConc]_vars

\* concurrent grants followed by revokes
NextRevokeConc ==
    \/ Registering
    \/ \E r \in ReqIds, a, u \in UserIds, contentType \in ContentTypes,
          contentId \in ContentIds :
          BeginGrant(r, a, u, contentType, contentId, NoDate)
    \/ \E r \in ReqIds : InsertGrant(r)
    \/ \E a, u \in UserIds, contentType \in ContentTypes, contentId \in ContentIds :
          GrantAccess(a, u, contentType, contentId, NoDate)
    \/ \E a, u \in UserIds, contentType \in ContentTypes, contentId \in ContentIds :
          RevokeAccess(a, u, contentType, contentId)

SpecRevokeConc == Init /\ [][NextRevokeConc]_vars

\* logins on one account running concurrently
NextLoginConc ==
    \/ Registering
    \/ Approving
    \/ \E r \in ReqIds, e \in UserIds, isMatch \in BOOLEAN : BeginLogin(r, e, isMatch)
    \/ \E r \in ReqIds : SaveLogin(r)

SpecLoginConc == Init /\ [][NextLoginConc]_vars

\* the routes that write another account's status, beside an administrator
\* whose permission list is tightened or emptied
NextPerm ==
    \/ Registering
    \/ \E a, u \in UserIds, permissions \in {<<{}>>, <<{"content_management"}>>} :
          UpdateAdmin(a, u, Absent, permissions, <<>>)
    \/ Deciding
    \/ \E a, e \in UserIds, paid \in BOOLEAN : AdminCreateUser(a, e, paid)
    \/ \E a, u \in UserIds : AdminUpdateUserSubscription(a, u, "active", "premium")
    \/ \E a, u \in UserIds : AdminUpdateUser(a, u, "free", "inactive")

SpecPerm == Init /\ [][NextPerm]_vars

(***************************************************************************)
(* Properties.                                                             *)
(***************************************************************************)
SubOps == {"createSubscription", "cancelSubscription", "adminUpdateSubscription"}

\* C1: once a Subscription has been saved, every account has
\* subscriptionStatus = active => subscriptionTier # free and
\* subscriptionStatus = inactive => subscriptionTier = free (SpecDirect).
C1_TierFollowsStatus ==
    (\E s \in SubIds : subs[s] # NoSub) =>
        \A u \in UserIds : Exists(u) =>
            /\ users[u].subscriptionStatus = "active" => users[u].subscriptionTier # "free"
            /\ users[u].subscriptionStatus = "inactive" => users[u].subscriptionTier = "free"

\* C2: an account's subscriptionStatus is active exactly when it owns at least
\* one Subscription with status active (Spec).
C2_ActiveIffActiveSubscription ==
    \A u \in UserIds : Exists(u) =>
        (users[u].subscriptionStatus = "active"
            <=> \E s \in SubIds : subs[s] # NoSub /\ subs[s].userId = u /\ subs[s].status = "active")

\* C3: no reader sees a Subscription stored as active while its account is
\* free/inactive, nor an account already rewritten by a save whose Subscription
\* record still shows the old status (SpecConc).
C3_SaveAtomicToReaders ==
    /\ \A s \in SubIds : subs[s] # NoSub /\ subs[s].status = "active" /\ Exists(subs[s].userId) =>
          ~(/\ users[subs[s].userId].subscriptionTier = "free"
            /\ users[subs[s].userId].subscriptionStatus = "inactive")
    /\ \A r \in ReqIds : ~Idle(r) /\ reqs[r].wrote =>
          /\ subs[reqs[r].sid] # NoSub
          /\ subs[reqs[r].sid].status = reqs[r].doc.status

\* C4: a save whose account write fails persists no Subscription change, and a
\* save whose Subscription write fails changes no account (SpecFail).
C4_AllOrNothing ==
    [][/\ last'.userFail => subs' = subs
       /\ last'.subFail => users' = users]_vars

\* C5: after a create, cancel or adminUpdate that sets a Subscription's status
\* to s: s = active gives the owner status active and the tier of that
\* Subscription's plan; s cancelled or expired with no other active Subscription
\* gives free/inactive; s cancelled or expired with another active Subscription
\* leaves the owner's tier and status as they were (Spec).
C5_Recomputation ==
    [][(last'.op \in SubOps /\ last'.ok /\ last'.st # Absent) =>
          LET u == last'.u
              s == last'.s IN
          /\ last'.st = "active" =>
                /\ users'[u].subscriptionStatus = "active"
                /\ users'[u].subscriptionTier = SubTier(subs'[s].planId)
          /\ last'.st \in {"cancelled", "expired"} /\ OtherActive(subs', u, s) = {} =>
                /\ users'[u].subscriptionTier = "free"
                /\ users'[u].subscriptionStatus = "inactive"
          /\ last'.st \in {"cancelled", "expired"} /\ OtherActive(subs', u, s) # {} =>
                /\ users'[u].subscriptionTier = users[u].subscriptionTier
                /\ users'[u].subscriptionStatus = users[u].subscriptionStatus]_vars

\* C6: checkAccess answers true exactly when the account exists and either it is
\* active with tier premium or enterprise, or a grant for exactly that account,
\* content type and content id has accessGranted and no expiry or an expiry
\* strictly in the future (SpecAccess).
C6_CheckAccessExact ==
    last.op = "checkAccess" =>
        (last.res <=>
            /\ users[last.u] # NoUser
            /\ \/ /\ users[last.u].subscriptionStatus = "active"
                  /\ users[last.u].subscriptionTier \in {"premium", "enterprise"}
               \/ \E g \in GrantIds :
                     /\ grants[g] # NoGrant
                     /\ grants[g].userId = last.u
                     /\ grants[g].contentType = last.content[1]
                     /\ grants[g].contentId = last.content[2]
                     /\ grants[g].accessGranted
                     /\ (grants[g].expiresAt = NoDate \/ grants[g].expiresAt > now))

\* checkAccess has answered true for an account without a paid projection,
\* through a grant that is still to expire, while another grant of the account
\* has lapsed or been revoked
C6_Witness ==
    /\ last.op = "checkAccess" /\ last.res
    /\ ~hasActiveSubscription(users[last.u])
    /\ \E g \in GrantIds :
          /\ ValidGrant(grants[g], last.u, last.content[1], last.content[2])
          /\ grants[g].expiresAt > now
    /\ \E g \in GrantIds :
          /\ grants[g] # NoGrant /\ grants[g].userId = last.u
          /\ ~ValidGrant(grants[g], last.u, grants[g].contentType, grants[g].contentId)

\* C7: a token is issued only to an account whose registrationStatus is
\* approved, whichever operation issues it (SpecAuth).
C7_TokenOnlyWhileApproved ==
    (last.op \in {"register", "registerWithPayment", "login", "adminLogin"} /\ last.res) =>
        users[last.u].registrationStatus = "approved"

\* C8: registrationStatus starts at pending_payment or payment_submitted and
\* changes only along pending_payment -> payment_submitted,
\* payment_submitted -> approved and payment_submitted -> rejected, the last
\* two only in an admin's approve or reject (SpecReg).
C8_RegistrationEdges ==
    [][\A u \in UserIds :
          IF ~Exists(u)
          THEN users'[u] # NoUser =>
                  users'[u].registrationStatus \in {"pending_payment", "payment_submitted"}
          ELSE users'[u].registrationStatus # users[u].registrationStatus =>
                  \/ /\ users[u].registrationStatus = "pending_payment"
                     /\ users'[u].registrationStatus = "payment_submitted"
                  \/ /\ users[u].registrationStatus = "payment_submitted"
                     /\ users'[u].registrationStatus \in {"approved", "rejected"}
                     /\ last'.op \in {"approve", "reject"}]_vars

\* C9: a rejected account stays rejected in every later state, and an approve
\* or a bulk approve run leaves its paymentStatus unchanged (SpecReg).
C9_RejectionTerminal ==
    [][\A u \in UserIds :
          (Exists(u) /\ users[u].registrationStatus = "rejected") =>
              /\ users'[u].registrationStatus = "rejected"
              /\ last'.op \in {"approve", "fixExistingUsers", "fixAllUsers"} =>
                    users'[u].paymentStatus = users[u].paymentStatus]_vars

\* C10: right after approve on an account in payment_submitted the account is
\* approved, verified, stamped, active, premium and email verified, and
\* checkAccess answers true for every content item (SpecReg).
C10_ApproveGrantsAccess ==
    (last.op = "approve" /\ last.ok /\ last.st = "payment_submitted") =>
        /\ users[last.u].registrationStatus = "approved"
        /\ users[last.u].paymentStatus = "verified"
        /\ users[last.u].paymentVerificationDate # NoDate
        /\ users[last.u].subscriptionStatus = "active"
        /\ users[last.u].subscriptionTier = "premium"
        /\ users[last.u].isEmailVerified
        /\ \A contentType \in ContentTypes, contentId \in ContentIds :
              checkAccess(last.u, contentType, contentId)

\* an account registered with a payment proof has just been approved and is
\* answered access though it owns no Subscription and no grant names it
C10_Witness ==
    /\ last.op = "approve" /\ last.ok /\ last.st = "payment_submitted"
    /\ last.u # ADMIN_EMAIL
    /\ checkAccess(last.u, "magazine", "42")
    /\ \A s \in SubIds : subs[s] = NoSub \/ subs[s].userId # last.u
    /\ \A g \in GrantIds : grants[g] = NoGrant \/ grants[g].userId # last.u

\* C11: when an admin sets an account's only active Subscription to cancelled,
\* the account becomes free/inactive and checkAccess is then true exactly for
\* the content items for which the account holds a granted grant without
\* expiry or with an expiry still ahead (SpecCancel).
C11_CancelLeavesGrantsOnly ==
    [][\A u \in UserIds, sid \in SubIds :
          (/\ last'.op = "adminUpdateSubscription" /\ last'.ok /\ last'.st = "cancelled"
           /\ last'.u = u /\ last'.s = sid
           /\ subs[sid].status = "active"
           /\ \A s \in SubIds \ {sid} :
                 subs[s] = NoSub \/ subs[s].userId # u \/ subs[s].status # "active") =>
             /\ users'[u].subscriptionTier = "free"
             /\ users'[u].subscriptionStatus = "inactive"
             /\ \A contentType \in ContentTypes, contentId \in ContentIds :
                   checkAccess(u, contentType, contentId)' <=>
                      \E g \in GrantIds :
                         /\ grants'[g] # NoGrant
                         /\ grants'[g].userId = u
                         /\ grants'[g].contentType = contentType
                         /\ grants'[g].contentId = contentId
                         /\ grants'[g].accessGranted
                         /\ (grants'[g].expiresAt = NoDate \/ grants'[g].expiresAt > now')]_vars

\* an admin has just cancelled the only active Subscription of an account that
\* holds a grant without expiry: the account is free/inactive, the granted item
\* is still accessible and another item is not
C11_Witness ==
    /\ last.op = "adminUpdateSubscription" /\ last.ok /\ last.st = "cancelled"
    /\ users[last.u].subscriptionTier = "free"
    /\ users[last.u].subscriptionStatus = "inactive"
    /\ subs[last.s].status = "cancelled"
    /\ \E g \in GrantIds :
          /\ grants[g] # NoGrant /\ grants[g].userId = last.u
          /\ grants[g].accessGranted /\ grants[g].expiresAt = NoDate
          /\ checkAccess(last.u, grants[g].contentType, grants[g].contentId)
    /\ \E contentType \in ContentTypes, contentId \in ContentIds :
          ~checkAccess(last.u, contentType, contentId)

\* C12: at most one Content Access Grant is stored per (account, contentType,
\* contentId), also after grantAccess calls for one triple that ran
\* concurrently (SpecGrantConc).
C12_OneGrantPerTriple ==
    \A g, h \in GrantIds :
        (/\ g # h /\ grants[g] # NoGrant /\ grants[h] # NoGrant
         /\ grants[g].userId = grants[h].userId
         /\ grants[g].contentType = grants[h].contentType) =>
            grants[g].contentId # grants[h].contentId

\* C13 as stated: revokeAccess on a triple without a grant record succeeds and
\* checkAccess for that triple is then false (SpecAccess).
C13_RevokeUngrantedDenies ==
    (last.op = "revokeAccess" /\ GrantsOf(last.u, last.content[1], last.content[2]) = {}) =>
        /\ last.ok
        /\ ~checkAccess(last.u, last.content[1], last.content[2])

\* C13: revokeAccess on a triple without a grant record succeeds and stores
\* nothing; checkAccess for that triple is then false unless the account is
\* active with tier premium or enterprise, in which case it is true
\* (SpecAccess).
C13_RevokeUngrantedLeavesSubscriptionPath ==
    (last.op = "revokeAccess" /\ GrantsOf(last.u, last.content[1], last.content[2]) = {}) =>
        /\ last.ok
        /\ checkAccess(last.u, last.content[1], last.content[2]) <=>
              /\ users[last.u] # NoUser
              /\ users[last.u].subscriptionStatus = "active"
              /\ users[last.u].subscriptionTier \in {"premium", "enterprise"}

\* a revoke of a never-granted triple has succeeded for an existing account
\* without a paid projection, and the triple is not accessible
C13_Witness ==
    /\ last.op = "revokeAccess" /\ last.ok
    /\ GrantsOf(last.u, last.content[1], last.content[2]) = {}
    /\ Exists(last.u)
    /\ ~hasActiveSubscription(users[last.u])
    /\ ~checkAccess(last.u, last.content[1], last.content[2])

\* C14: for an existing account without a paid projection and its granted
\* grant with expiresAt = t, checkAccess answers true at every time before t
\* and false at t and later (SpecAccess).
C14_ExpiryBoundary ==
    \A g \in GrantIds :
        (/\ last.op = "checkAccess"
         /\ users[last.u] # NoUser
         /\ ~(/\ users[last.u].subscriptionStatus = "active"
              /\ users[last.u].subscriptionTier \in {"premium", "enterprise"})
         /\ grants[g] # NoGrant
         /\ grants[g].userId = last.u
         /\ <<grants[g].contentType, grants[g].contentId>> = last.content
         /\ grants[g].accessGranted
         /\ grants[g].expiresAt # NoDate) =>
            (last.res <=> now < grants[g].expiresAt)

\* checkAccess has answered false at the very instant a granted grant expires
C14_Witness ==
    /\ last.op = "checkAccess" /\ ~last.res
    /\ Exists(last.u)
    /\ \E g \in GrantIds :
          /\ grants[g] # NoGrant /\ grants[g].userId = last.u
          /\ <<grants[g].contentType, grants[g].contentId>> = last.content
          /\ grants[g].accessGranted
          /\ grants[g].expiresAt = now

\* C15: createSubscription for an account that holds a Subscription with status
\* active is refused, and creates no Subscription and changes no account and
\* no Subscription (Spec).
C15_CreateRefusedWhenActive ==
    [][\A u \in UserIds :
          (/\ last'.op = "createSubscription" /\ last'.u = u
           /\ \E s \in SubIds : subs[s] # NoSub /\ subs[s].userId = u /\ subs[s].status = "active") =>
              /\ ~last'.ok
              /\ subs' = subs
              /\ users' = users]_vars

\* a createSubscription has just been refused for an account that holds an
\* active Subscription
C15_Witness ==
    /\ last.op = "createSubscription" /\ ~last.ok
    /\ \E s \in SubIds : subs[s] # NoSub /\ subs[s].userId = last.u /\ subs[s].status = "active"
    /\ \E s \in SubIds : subs[s] = NoSub

\* C16: createSubscription checks for an active Subscription only before it
\* builds the document: a create that passed the check stores its active
\* Subscription whatever was stored meanwhile, so two concurrent creates of one
\* account both store theirs (SpecConc).
C16_CreateActsOnStaleCheck ==
    [][\A r \in ReqIds :
          (/\ reqs[r].pc = "write" /\ reqs[r].op = "createSubscription"
           /\ reqs'[r].pc = "idle") =>
              /\ subs'[reqs[r].sid] = reqs[r].doc
              /\ subs'[reqs[r].sid].status = "active"]_vars

\* one account holds two Subscriptions with status active
C16_Witness ==
    \E s, t \in SubIds :
        /\ s # t /\ subs[s] # NoSub /\ subs[t] # NoSub
        /\ subs[s].userId = subs[t].userId
        /\ subs[s].status = "active" /\ subs[t].status = "active"

\* C17: cancelSubscription succeeds exactly when the Subscription belongs to the
\* caller and is active, and then stores status cancelled, the cancellation
\* time and cancelAtPeriodEnd; otherwise it fails and changes no Subscription
\* and no account (Spec).
C17_CancelOwnActiveOnly ==
    [][\A u \in UserIds, sid \in SubIds :
          (last'.op = "cancelSubscription" /\ last'.u = u /\ last'.s = sid) =>
              IF subs[sid] # NoSub /\ subs[sid].userId = u /\ subs[sid].status = "active"
              THEN /\ last'.ok
                   /\ subs'[sid].status = "cancelled"
                   /\ subs'[sid].cancelledAt = now
                   /\ subs'[sid].cancelAtPeriodEnd
                   /\ \A s \in SubIds \ {sid} : subs'[s] = subs[s]
              ELSE /\ ~last'.ok
                   /\ subs' = subs
                   /\ users' = users]_vars

\* a caller has just cancelled their own active Subscription while another
\* account's Subscription is stored
C17_Witness ==
    /\ last.op = "cancelSubscription" /\ last.ok
    /\ subs[last.s].userId = last.u
    /\ subs[last.s].status = "cancelled"
    /\ subs[last.s].cancelledAt # NoDate
    /\ subs[last.s].cancelAtPeriodEnd
    /\ \E s \in SubIds : subs[s] # NoSub /\ subs[s].userId # last.u

\* C18: the failed credential check that brings the counter to five opens a
\* lock window; a login attempted while the window is open issues no token,
\* whatever the credential; a successful login after the window has passed
\* leaves the counter at zero and no lock (SpecAuth).
C18_LockOut ==
    [][\A u \in UserIds :
          (last'.op \in {"login", "adminLogin"} /\ last'.u = u /\ Exists(u)) =>
              /\ isLocked(users[u]) => ~last'.res
              /\ (/\ users'[u].loginAttempts > users[u].loginAttempts
                  /\ users'[u].loginAttempts >= LockThreshold) =>
                     users'[u].lockUntil = now + LockWindow
              /\ (last'.res /\ users[u].lockUntil # NoDate /\ ~isLocked(users[u])) =>
                     /\ users'[u].loginAttempts = 0
                     /\ users'[u].lockUntil = NoDate]_vars


PrivilegedOps ==
    {"approve", "reject"} \cup SubOps \cup
    {"grantAccess", "revokeAccess", "createAdmin", "updateAdmin", "deactivateAdmin"}

BulkOps == {"fixExistingUsers", "fixAllUsers"}

\* the state-mutating operations of the registration state machine (with its
\* bulk variants), of the subscription lifecycle and of admin management
MutatingOps ==
    {"approve", "reject"} \cup BulkOps \cup SubOps \cup
    {"createAdmin", "updateAdmin", "deactivateAdmin"}

\* C20: every successful state-mutating operation that changed an account, a
\* subscription or an admin grant appends exactly one audit entry (for a handler
\* that writes to the audit store: while the store takes writes), and the entry of a registration transition holds the four
\* status fields from before and from after the transition (SpecReg).
C20_OneAuditEntry ==
    [][(/\ AuditAccepts \/ last'.op \in BulkOps
        /\ last'.ok
        /\ last'.op \in MutatingOps
        /\ (users' # users \/ subs' # subs \/ admins' # admins)) =>
          /\ Len(last'.audit) = 1
          /\ \A u \in UserIds :
                (last'.op \in {"approve", "reject"} /\ last'.u = u) =>
                   last'.audit[1].details = <<StatusFields(users[u]), StatusFields(users'[u])>>]_vars

\* C21: the audit trail is append-only: every step leaves each stored entry in
\* its place and unchanged, the deletion of an account included (SpecTrail).
C21_AppendOnly ==
    [][/\ Len(auditLog') >= Len(auditLog)
       /\ SubSeq(auditLog', 1, Len(auditLog)) = auditLog
       /\ (last'.op = "deleteUser" /\ last'.ok) =>
             \A i \in 1..Len(auditLog) : auditLog'[i] = auditLog[i]]_vars

\* an account was deleted while the trail held an entry about it, and the
\* entry is still there
C21_Witness ==
    /\ last.op = "deleteUser"
    /\ last.ok
    /\ users[last.u] = NoUser
    /\ \E i \in 1..Len(auditLog) :
          auditLog[i].resourceId = last.u /\ auditLog[i].action = "user_registered"

\* the principal has an admin grant that is active and holds the token
Permitted(a, token) ==
    /\ admins[a] # NoAdmin
    /\ admins[a].isActive
    /\ token \in admins[a].permissions

\* C22: no step is a guarded operation requested by a principal who, in the
\* state of the request, has no admin grant, a deactivated grant or a grant
\* without the operation's token; a request the guard denies leaves accounts,
\* subscriptions, content grants, admin grants and tokens as they are
\* (SpecGuard).
C22_GuardDenies ==
    [][/\ \A a \in UserIds :
            /\ ~Permitted(a, "admin_management") =>
                  ~\E u \in UserIds :
                      \/ \E role \in AdminRoles : CreateAdmin(a, u, role, <<>>)
                      \/ \E permissions \in PermissionLists, isActive \in {<<>>, <<FALSE>>} :
                            UpdateAdmin(a, u, Absent, permissions, isActive)
                      \/ DeactivateAdmin(a, u)
            /\ ~Permitted(a, "content_management") =>
                  ~\E u \in UserIds : GrantAccess(a, u, "magazine", "42", NoDate)
            /\ ~Permitted(a, "user_management") =>
                  ~\E u \in UserIds : AdminUpdateUser(a, u, "free", Absent)
       /\ last'.op = "forbidden" =>
            /\ ~last'.ok
            /\ ~Permitted(last'.u, last'.st)
            /\ UNCHANGED <<users, subs, grants, admins, tokens>>]_vars

\* an admin whose grant lacks admin_management asked for an operation the
\* token guards and was denied
C22_Witness ==
    /\ last.op = "forbidden"
    /\ last.st = "admin_management"
    /\ admins[last.u] # NoAdmin
    /\ admins[last.u].isActive
    /\ "admin_management" \notin admins[last.u].permissions

\* C23: a grant created or updated with a permission list in the request
\* stores that list (SpecAdmins).
C23_ExplicitListStored ==
    [][\A a, u \in UserIds, permissions \in PermissionLists \ {<<>>} :
          /\ (last'.ok /\ \E role \in AdminRoles : CreateAdmin(a, u, role, permissions)) =>
                admins'[u].permissions = permissions[1]
          /\ (last'.ok /\ \E isActive \in {<<>>, <<FALSE>>} :
                             UpdateAdmin(a, u, Absent, permissions, isActive)) =>
                admins'[u].permissions = permissions[1]]_vars

\* the default permission set of a role, as the claim gives it
RoleDefault(role) ==
    IF role = "super_admin"
    THEN {"user_management", "content_management", "subscription_management",
          "admin_management", "system_settings", "analytics_view", "audit_logs"}
    ELSE {"user_management", "content_management", "subscription_management",
          "analytics_view"}

\* C24: a grant created, or whose role is set, without a permission list in
\* the request holds the default permission set of its role afterwards
\* (SpecAdmins).
C24_DefaultOnRoleSet ==
    [][\A a, u \in UserIds, role \in AdminRoles :
          /\ (last'.ok /\ CreateAdmin(a, u, role, <<>>)) =>
                admins'[u].permissions = RoleDefault(role)
          /\ (last'.ok /\ \E isActive \in {<<>>, <<FALSE>>} :
                             UpdateAdmin(a, u, role, <<>>, isActive)) =>
                admins'[u].permissions = RoleDefault(role)]_vars

\* C25: no operation an admin requests sets that admin's own grant inactive:
\* the deactivate operation and the update operation with isActive = false on
\* the caller's own grant are refused and leave the grant active (SpecAdmins).
C25_NoSelfDeactivation ==
    [][\A a \in UserIds :
          (\/ DeactivateAdmin(a, a)
           \/ \E role \in AdminRoles \cup {Absent}, permissions \in PermissionLists :
                 UpdateAdmin(a, a, role, permissions, <<FALSE>>)) =>
             /\ ~last'.ok
             /\ admins'[a].isActive]_vars

\* C26: a bulk approve run directly after a run of the same script changes no
\* account, and a run that matches no account changes nothing and ends without
\* an error (SpecReg).
C26_BulkIdempotentTotal ==
    [][last'.op \in BulkOps =>
          /\ last.op = last'.op => (users' = users /\ last'.s = 0)
          /\ last'.s = 0 => (users' = users /\ last'.ok)]_vars

\* a bulk run that matched no account, in a collection that holds an account
\* an earlier bulk run approved (approved without its email verified)
C26_Witness ==
    /\ last.op \in BulkOps
    /\ last.ok
    /\ last.s = 0
    /\ \E u \in UserIds : /\ Exists(u)
                          /\ users[u].registrationStatus = "approved"
                          /\ users[u].paymentStatus = "verified"
                          /\ ~users[u].isEmailVerified

\* the account's subscription already looks active
LooksActive(user) ==
    user.subscriptionStatus = "active" \/ user.subscriptionTier \in {"premium", "enterprise"}

\* C27: every account a bulk approve changes ends in the state a single approve
\* gives (approved, verified, active, premium, email verified); the selective
\* variant changes exactly the accounts with registrationStatus =
\* payment_submitted whose subscription looks active (SpecReg).
C27_BulkIsBatchApprove ==
    [][last'.op \in BulkOps =>
          \A u \in UserIds : Exists(u) =>
             /\ users'[u] # users[u] =>
                   /\ users'[u].registrationStatus = "approved"
                   /\ users'[u].paymentStatus = "verified"
                   /\ users'[u].subscriptionStatus = "active"
                   /\ users'[u].subscriptionTier = "premium"
                   /\ users'[u].isEmailVerified
             /\ last'.op = "fixExistingUsers" =>
                   (users'[u].registrationStatus # users[u].registrationStatus
                      <=> (/\ users[u].registrationStatus = "payment_submitted"
                           /\ LooksActive(users[u])))]_vars

\* C28: an account's subscriptionTier and subscriptionStatus change only in a
\* step of create, cancel or adminUpdate of a subscription or of the
\* registration approve (SpecDirect).
C28_ProjectionWrittenByLifecycleOnly ==
    [][\A u \in UserIds :
          (/\ Exists(u)
           /\ users'[u] # NoUser
           /\ \/ users'[u].subscriptionTier # users[u].subscriptionTier
              \/ users'[u].subscriptionStatus # users[u].subscriptionStatus) =>
             last'.op \in SubOps \cup {"approve"}]_vars

\* C30: after a successful PUT /admin/users/:id/subscription the account has
\* subscriptionTier in {premium, enterprise} => subscriptionStatus = active and
\* subscriptionStatus = inactive => subscriptionTier = free (SpecDirect).
C30_ConsistencyRules ==
    (last.op = "adminUpdateUserSubscription" /\ last.ok) =>
        /\ users[last.u].subscriptionTier \in {"premium", "enterprise"} =>
              users[last.u].subscriptionStatus = "active"
        /\ users[last.u].subscriptionStatus = "inactive" =>
              users[last.u].subscriptionTier = "free"

UnapprovedStatuses == {"pending_payment", "payment_submitted", "rejected"}

\* C31: in every reachable state an account whose registrationStatus is
\* pending_payment, payment_submitted or rejected does not have
\* subscriptionStatus active with a paid tier, so the subscription path of
\* checkAccess never answers true for it (Spec).
C31_SubscriptionAccessOnlyWhenApproved ==
    \A u \in UserIds :
        (Exists(u) /\ users[u].registrationStatus \in UnapprovedStatuses) =>
            /\ ~(/\ users[u].subscriptionStatus = "active"
                 /\ users[u].subscriptionTier \in {"premium", "enterprise"})
            /\ \A contentType \in ContentTypes, contentId \in ContentIds :
                  checkAccess(u, contentType, contentId) =>
                     GrantsOf(u, contentType, contentId) # {}

\* the active Subscriptions an account owns
ActiveSubsOf(u) ==
    {s \in SubIds : subs[s] # NoSub /\ subs[s].userId = u /\ subs[s].status = "active"}

\* C32: whenever an account owns at least one Subscription with status active,
\* the account's subscriptionTier is the tier of one of its active
\* Subscriptions, after any sequence of create, cancel, adminUpdate and approve
\* (Spec).
C32_TierOfAnActiveSubscription ==
    \A u \in UserIds :
        (Exists(u) /\ ActiveSubsOf(u) # {}) =>
            \E s \in ActiveSubsOf(u) : users[u].subscriptionTier = SubTier(subs[s].planId)

\* C33: when all active Subscriptions of an account have been cancelled or
\* expired by operations that ran concurrently, then once all of them have
\* completed the account is tier free / status inactive (SpecConc).
C33_AllCancelledGivesFree ==
    \A u \in UserIds :
        (/\ IdleReqs = ReqIds
         /\ Exists(u)
         /\ \E s \in SubIds : subs[s] # NoSub /\ subs[s].userId = u
         /\ ActiveSubsOf(u) = {}) =>
            /\ users[u].subscriptionTier = "free"
            /\ users[u].subscriptionStatus = "inactive"

\* C34: once revokeAccess for a triple has completed, and until the next
\* grantAccess for that triple, checkAccess for the triple is false for an
\* account without subscription-implied access, whatever sequence or
\* interleaving of grantAccess calls for the triple came before
\* (SpecRevokeConc).
C34_RevokeDenies ==
    (/\ last.op = "revokeAccess"
     /\ Exists(last.u)
     /\ ~hasActiveSubscription(users[last.u])) =>
        ~checkAccess(last.u, last.content[1], last.content[2])

\* whether the account's lock window has opened and run out
LockExpired(user) == user.lockUntil # NoDate /\ user.lockUntil <= now

\* C35: after a lock window has expired, a single failed credential check (with
\* no successful check in between) does not open a new lock window (SpecAuth).
C35_NoRelockOnOneFailure ==
    [][\A e \in UserIds :
          (/\ Exists(e)
           /\ LockExpired(users[e])
           /\ last'.op \in {"login", "adminLogin"}
           /\ last'.u = e
           /\ users'[e].loginAttempts = users[e].loginAttempts + 1) =>
              ~isLocked(users'[e])]_vars

\* C36: under concurrent login attempts on one account every failed credential
\* check raises the stored failed-attempt counter by exactly one, and the
\* check that brings the number of failures to LockThreshold leaves the account
\* locked (SpecLoginConc).
C36_NoLostAttempt ==
    [][\A r \in ReqIds :
          (/\ reqs[r].pc = "compare"
           /\ reqs'[r] = NoReq
           /\ ~reqs[r].isMatch) =>
              LET e == reqs[r].u IN
              /\ users'[e].loginAttempts = users[e].loginAttempts + 1
              /\ users[e].loginAttempts + 1 >= LockThreshold => isLocked(users'[e])]_vars

\* the accounts whose active Admin Grant holds admin_management
AdminManagers(adm) ==
    {u \in UserIds : adm[u] # NoAdmin /\ hasPermission(adm[u], "admin_management")}

\* C37: once an active Admin Grant holding admin_management exists, at least
\* one exists in every later state, under any sequence of admin update and
\* deactivate operations (SpecAdmins).
C37_NoAdminLockout ==
    [][AdminManagers(admins) # {} => AdminManagers(admins') # {}]_vars

\* C38: after the admin delete-user operation for an account has completed, no
\* Subscription, Content Access Grant or Admin Grant references that account
\* (SpecTrail).
C38_DeleteLeavesNoReference ==
    [][(last'.op = "deleteUser" /\ last'.ok) =>
          LET u == last'.u IN
          /\ \A s \in SubIds : subs'[s] # NoSub => subs'[s].userId # u
          /\ \A g \in GrantIds : grants'[g] # NoGrant => grants'[g].userId # u
          /\ admins'[u] = NoAdmin]_vars

\* a step of one of the routes that change the registrationStatus,
\* subscriptionStatus or subscriptionTier of an account other than the caller a
StatusWrittenBy(a) ==
    \/ \E u \in UserIds \ {a}, action \in {"approve", "reject"} :
          RegistrationStatus(a, u, action)
    \/ \E u \in UserIds \ {a} : AdminUpdateUserSubscription(a, u, "active", "premium")
    \/ \E e \in UserIds \ {a}, paid \in BOOLEAN : AdminCreateUser(a, e, paid)
    \/ \E u \in UserIds \ {a} : AdminUpdateUser(a, u, "free", "inactive")

\* C39: approve/reject, the admin subscription-status update, admin user
\* creation and admin user update succeed only for a principal whose active
\* Admin Grant holds a permission; an active grant with an empty permission set
\* is not enough (SpecPerm).
C39_StatusWritesNeedPermission ==
    [][\A a \in UserIds :
          (StatusWrittenBy(a) /\ last'.ok) =>
              /\ admins[a] # NoAdmin
              /\ admins[a].isActive
              /\ admins[a].permissions # {}]_vars

=============================================================================
